---- MODULE Spec2Model ----
(***************************************************************************)
(* Request lifecycle of the equipment-borrowing backend: the status state   *)
(* machine (crud/requests.py), the token-based building responses          *)
(* (crud/responses.py, api/responses.py) and the allocation                 *)
(* (crud/allocations.py, api/allocations.py, schemas/allocations.py).      *)
(*                                                                         *)
(* The database holds the committed rows.  Every handler runs in its own   *)
(* SQLAlchemy session (database.py get_db), modelled by a worker p with a  *)
(* position pc[p] and the objects the session has loaded, sess[p].  A      *)
(* session keeps the attribute values of the first load of a row (identity *)
(* map, expire_on_commit=False, autoflush=False), a WHERE clause is        *)
(* evaluated on the committed rows of the moment, and a commit writes only *)
(* the attributes the handler changed.                                     *)
(*                                                                         *)
(* One request is followed from its creation.  The token row carries       *)
(* is_finished as crud/responses.py reads and writes it; the ORM class of  *)
(* models/responses.py (lines 18-38) declares no such column.              *)
(*                                                                         *)
(* outbox holds the LINE notifications that reach send_push_message        *)
(* (services/line_bot.py).                                                 *)
(***************************************************************************)
EXTENDS Integers, Sequences, FiniteSets, TLC

\* ------------------------------------------------------------------ bounds
MaxTime == 96
TickHours == 48
MaxHist == 5
MaxTokens == 2
RESPONSE_FORM_VALIDITY_HOURS == 48

\* ------------------------------------------------------------------ domains
Procs == {"p1", "p2"}
Applicants == {"u1", "u2"}
Creators == {"u1"}
Items == {"i1", "i2"}
ItemIds == Items \cup {"ix"}
EnabledBuildings == {"b1", "b2"}
BuildingIds == EnabledBuildings \cup {"bx"}
TokenIds == 1..MaxTokens
NULL == -1

VARIABLES
    serial,      \* TRUE: the handlers run one after the other
    now,         \* datetime.utcnow(), in hours
    status,      \* Request.status, "none" before the request is created
    owner,       \* Request.user_id
    history,     \* RequestStatusHistory rows of the request, oldest first
    approved,    \* RequestItem.approved_quantity per item, NULL until allocated
    tokens,      \* BuildingResponseToken rows by token
    responses,   \* BuildingResponse rows with their BuildingResponseItem rows
    allocations, \* Allocation rows
    pdf_path,    \* Request.pdf_path is set
    pc,          \* position of each handler
    sess,        \* what each handler's session has loaded and its input
    reply,       \* the HTTP response sent by the last step, NoResult if it sent none
    outbox       \* LINE notifications handed to send_push_message

dbvars == <<status, owner, history, approved, tokens, responses, allocations, pdf_path>>
vars == <<serial, now, status, owner, history, approved, tokens, responses,
          allocations, pdf_path, pc, sess, reply, outbox>>

NoToken == [exists |-> FALSE, used |-> FALSE, finished |-> FALSE, expires |-> 0]

NoSess == [op |-> "none", user |-> "-", tok |-> 0, bld |-> "-", items |-> <<>>,
           alloc |-> <<>>, new_status |-> "-", note |-> "-", rstatus |-> "-",
           tused |-> FALSE, existing |-> 0, batch |-> 0, toks |-> {}, dels |-> {},
           committed |-> FALSE]

NoResult == [op |-> "none", code |-> "-", status |-> "-", info |-> "-"]

Response(op, code, st, info) == [op |-> op, code |-> code, status |-> st, info |-> info]

InitDb ==
    /\ now = 0
    /\ status = "none"
    /\ owner = "-"
    /\ history = <<>>
    /\ approved = [i \in Items |-> NULL]
    /\ tokens = [t \in TokenIds |-> NoToken]
    /\ responses = {}
    /\ allocations = {}
    /\ pdf_path = FALSE
    /\ pc = [p \in Procs |-> "idle"]
    /\ sess = [p \in Procs |-> NoSess]
    /\ reply = NoResult
    /\ outbox = {}

Init == serial = FALSE /\ InitDb

InitSeq == serial = TRUE /\ InitDb

\* A handler may start: under serial scheduling only when no other is running.
Free(p) ==
    /\ pc[p] = "idle"
    /\ serial => \A q \in Procs : pc[q] = "idle"

Goto(p, label, s) ==
    /\ pc' = [pc EXCEPT ![p] = label]
    /\ sess' = [sess EXCEPT ![p] = s]
    /\ reply' = NoResult

\* The handler returns its HTTP response and its session is closed.
Finish(p, op, code, st, info) ==
    /\ pc' = [pc EXCEPT ![p] = "idle"]
    /\ sess' = [sess EXCEPT ![p] = NoSess]
    /\ reply' = Response(op, code, st, info)

HistoryEntry(st, note) == [status |-> st, note |-> note]

AddHistory_InPlace(e) ==
    IF history = <<>> THEN <<e>> ELSE [history EXCEPT ![Len(history)] = e]

\* db.add(status_history): the RequestStatusHistory row is inserted; no code
\* updates or deletes one.
AddHistory(e) == Append(history, e)

\* ------------------------------------------------------------------ time
\* The clock is read only against expires_at: it is followed from the first token on.
Tick ==
    /\ now + TickHours <= MaxTime
    /\ \E t \in TokenIds : tokens[t].exists
    /\ serial => \A q \in Procs : pc[q] = "idle"
    /\ now' = now + TickHours
    /\ reply' = NoResult
    /\ UNCHANGED <<serial, outbox, dbvars, pc, sess>>

\* ------------------------------------------------------------------ create
create_with_items(p, u) ==
    /\ Free(p)
    /\ status = "none"
    /\ status' = "pending_review"
    /\ owner' = u
    /\ history' = AddHistory(HistoryEntry("pending_review", "created"))
    /\ Finish(p, "create", "ok", "pending_review", "-")
    /\ UNCHANGED <<serial, outbox, now, approved, tokens, responses, allocations, pdf_path>>

\* ------------------------------------------------------------------ close / reject / approve-inquiry
\* The three CRUD guards: the request is loaded and checked; on success the
\* handler goes on to update_status, otherwise the CRUD call returns None.
\* The users who call close_request; only the applicant when handlers overlap.
Closers == IF serial THEN Applicants ELSE Creators

CloseAllowed_NoStatusCheck(u) == status # "none" /\ owner = u

CloseAllowed_AnyUser(u) == status # "none" /\ status = "pending_review"

CloseAllowed(u) == status # "none" /\ owner = u /\ status = "pending_review"

close_request(p, u) ==
    /\ Free(p)
    /\ IF CloseAllowed(u)
       THEN Goto(p, "update_status",
                 [NoSess EXCEPT !.op = "close", !.user = u, !.rstatus = status,
                                !.new_status = "closed", !.note = "closed"])
       ELSE Goto(p, "close_failed", [NoSess EXCEPT !.op = "close", !.user = u])
    /\ UNCHANGED <<serial, outbox, now, dbvars>>

\* api/requests.py close_request after the CRUD call returned None.
close_failed(p) ==
    /\ pc[p] = "close_failed"
    /\ IF status = "none" THEN Finish(p, "close", "NotFound", "-", "-")
       ELSE IF owner # sess[p].user THEN Finish(p, "close", "Forbidden", "-", "-")
       ELSE Finish(p, "close", "InvalidState", status, "-")
    /\ UNCHANGED <<serial, outbox, now, dbvars>>

RejectAllowed_AnyStatus == status # "none"

RejectAllowed == status # "none" /\ status = "pending_review"

reject_request(p) ==
    /\ Free(p)
    /\ IF RejectAllowed
       THEN Goto(p, "update_status",
                 [NoSess EXCEPT !.op = "reject", !.rstatus = status,
                                !.new_status = "rejected", !.note = "rejected"])
       ELSE Goto(p, "staff_failed", [NoSess EXCEPT !.op = "reject"])
    /\ UNCHANGED <<serial, outbox, now, dbvars>>

ApproveAllowed == status # "none" /\ status = "pending_review"

approve_inquiry(p) ==
    /\ Free(p)
    /\ IF ApproveAllowed
       THEN Goto(p, "update_status",
                 [NoSess EXCEPT !.op = "approve", !.rstatus = status,
                                !.new_status = "pending_building_response",
                                !.note = "approved"])
       ELSE Goto(p, "staff_failed", [NoSess EXCEPT !.op = "approve"])
    /\ UNCHANGED <<serial, outbox, now, dbvars>>

\* api/requests.py reject_request / approve_inquiry after the CRUD call returned None.
staff_failed(p) ==
    /\ pc[p] = "staff_failed"
    /\ IF status = "none" THEN Finish(p, sess[p].op, "NotFound", "-", "-")
       ELSE Finish(p, sess[p].op, "InvalidState", status, "-")
    /\ UNCHANGED <<serial, outbox, now, dbvars>>

\* The history row of update_status.
TransitionEntry_OldStatus(p) == HistoryEntry(sess[p].rstatus, sess[p].note)

TransitionEntry(p) == HistoryEntry(sess[p].new_status, sess[p].note)

\* update_status: the status is written whatever the committed status is now,
\* and one history row is inserted, in one commit.
update_status(p) ==
    /\ pc[p] = "update_status"
    /\ Len(history) < MaxHist
    /\ status' = sess[p].new_status
    /\ history' = AddHistory(TransitionEntry(p))
    /\ IF sess[p].op = "approve"
       THEN Goto(p, "create_token", sess[p])
       ELSE Finish(p, sess[p].op, "ok", sess[p].new_status, "-")
    /\ UNCHANGED <<serial, outbox, now, owner, approved, tokens, responses, allocations, pdf_path>>

FreeTokens == {t \in TokenIds : ~tokens[t].exists}

NewToken_Used == [exists |-> TRUE, used |-> TRUE, finished |-> FALSE,
                  expires |-> now + RESPONSE_FORM_VALIDITY_HOURS]

NewToken == [exists |-> TRUE, used |-> FALSE, finished |-> FALSE,
             expires |-> now + RESPONSE_FORM_VALIDITY_HOURS]

\* api/requests.py approve_inquiry, after the status commit: the token is
\* created in a commit of its own.
create_token(p) ==
    /\ pc[p] = "create_token"
    /\ FreeTokens # {}
    /\ LET t == CHOOSE x \in FreeTokens : \A y \in FreeTokens : x <= y
       IN tokens' = [tokens EXCEPT ![t] = NewToken]
    /\ Finish(p, "approve", "ok", sess[p].new_status, "-")
    /\ UNCHANGED <<serial, outbox, now, status, owner, history, approved, responses,
                   allocations, pdf_path>>

\* ------------------------------------------------------------------ building responses
\* Request bodies of submit_response; fewer of them when handlers overlap.
ResponseItemLists ==
    IF serial
    THEN { <<[item |-> "i1", qty |-> 1]>>,
           <<[item |-> "i1", qty |-> 2], [item |-> "i2", qty |-> 0]>>,
           <<[item |-> "ix", qty |-> 1]>> }
    ELSE { <<[item |-> "i1", qty |-> 1]>> }

TokenActive_IgnoreExpiry(t) ==
    /\ tokens[t].exists
    /\ ~tokens[t].finished

\* The buildingId values of the request bodies; only enabled ones when handlers overlap.
SubmitBuildings == IF serial THEN BuildingIds ELSE EnabledBuildings

\* The WHERE clause of the token query of get_form_data and submit_response.
TokenActive(t) ==
    /\ tokens[t].exists
    /\ tokens[t].expires > now
    /\ ~tokens[t].finished

RespondableStatus(st) == st = "pending_building_response" \/ st = "pending_allocation"

\* crud get_form_data returns form data (not None).
FormAvailable(t) == TokenActive(t) /\ RespondableStatus(status)

\* api/responses.py get_form_data: the token lookup.
get_form(p, t) ==
    /\ Free(p)
    /\ IF ~tokens[t].exists
       THEN Finish(p, "get_form", "InvalidToken", "-", "-")
       ELSE Goto(p, "get_form_data", [NoSess EXCEPT !.op = "get_form", !.tok = t])
    /\ UNCHANGED <<serial, outbox, now, dbvars>>

get_form_data(p) ==
    /\ pc[p] = "get_form_data"
    /\ IF FormAvailable(sess[p].tok)
       THEN Finish(p, "get_form", "ok", status, "-")
       ELSE Finish(p, "get_form", "NotFound", "-", "-")
    /\ UNCHANGED <<serial, outbox, now, dbvars>>

\* api/responses.py submit_response: token lookup, expiry and finished checks.
submit_response(p, t, b, items) ==
    /\ Free(p)
    /\ IF ~tokens[t].exists THEN Finish(p, "submit", "InvalidToken", "-", "-")
       ELSE IF tokens[t].expires < now THEN Finish(p, "submit", "Expired", "-", "-")
       ELSE IF tokens[t].finished THEN Finish(p, "submit", "Completed", "-", "-")
       ELSE Goto(p, "submit_token",
                 [NoSess EXCEPT !.op = "submit", !.tok = t, !.bld = b, !.items = items,
                                !.tused = tokens[t].used])
    /\ UNCHANGED <<serial, outbox, now, dbvars>>

\* crud submit_response: the token query.
submit_token(p) ==
    /\ pc[p] = "submit_token"
    /\ IF TokenActive(sess[p].tok)
       THEN Goto(p, "submit_checks", sess[p])
       ELSE Goto(p, "submit_failed", sess[p])
    /\ UNCHANGED <<serial, outbox, now, dbvars>>

ItemsBelong(items) == \A k \in 1..Len(items) : items[k].item \in Items

\* crud submit_response: the request, building and item checks.
submit_checks(p) ==
    /\ pc[p] = "submit_checks"
    /\ IF /\ status # "none"
          /\ RespondableStatus(status)
          /\ sess[p].bld \in EnabledBuildings
          /\ ItemsBelong(sess[p].items)
       THEN Goto(p, IF sess[p].tused THEN "submit_find" ELSE "submit_new",
                 [sess[p] EXCEPT !.rstatus = status])
       ELSE Goto(p, "submit_failed", sess[p])
    /\ UNCHANGED <<serial, outbox, now, dbvars>>

ExistingResponses(t, b) == {r \in responses : r.tok = t /\ r.bld = b}

\* crud submit_response: the lookup of this building's response under the token
\* and of its items (only when the loaded token says is_used).
submit_find(p) ==
    /\ pc[p] = "submit_find"
    /\ LET rows == ExistingResponses(sess[p].tok, sess[p].bld)
       IN IF rows = {}
          THEN Goto(p, "submit_new", sess[p])
          ELSE \E r \in rows :
                  Goto(p, "submit_update",
                       [sess[p] EXCEPT !.existing = r.id, !.batch = r.batch])
    /\ UNCHANGED <<serial, outbox, now, dbvars>>

\* The id of the rows of the next commit (every commit of a response or an
\* allocation inserts one history row).
NextId == Len(history) + 1

UpdatedResponses_Accumulate(id, items) ==
    {IF r.id = id THEN [r EXCEPT !.items = r.items \o items, !.batch = NextId] ELSE r : r \in responses}

UpdatedResponses_AllRows(id, items) ==
    {[r EXCEPT !.items = items, !.batch = NextId] : r \in responses}

UpdatedResponses(id, items) ==
    {IF r.id = id THEN [r EXCEPT !.items = items, !.batch = NextId] ELSE r : r \in responses}

\* crud submit_response, update branch: the items are replaced, a history row
\* with the loaded status is inserted.  Deleting an item row that another
\* commit has deleted fails the flush (StaleDataError) and nothing is written.
submit_update(p) ==
    /\ pc[p] = "submit_update"
    /\ Len(history) < MaxHist
    /\ IF \E r \in responses : r.id = sess[p].existing /\ r.batch = sess[p].batch
       THEN /\ responses' = UpdatedResponses(sess[p].existing, sess[p].items)
            /\ history' = AddHistory(HistoryEntry(sess[p].rstatus, "response_update"))
            /\ Finish(p, "submit", "ok", "-", "update")
       ELSE /\ UNCHANGED <<responses, history>>
            /\ Finish(p, "submit", "ServerError", "-", "-")
    /\ UNCHANGED <<serial, outbox, now, status, owner, approved, tokens, allocations, pdf_path>>

NewResponse(t, b, items) ==
    [id |-> NextId, tok |-> t, bld |-> b, batch |-> NextId, items |-> items]

StatusChanged_Never(loaded) == FALSE

StatusChanged(loaded) == loaded = "pending_building_response"

\* crud submit_response, new branch: response and items inserted, token marked
\* used, first-response transition decided on the loaded status, one history row.
submit_new(p) ==
    /\ pc[p] = "submit_new"
    /\ Len(history) < MaxHist
    /\ responses' = responses \cup {NewResponse(sess[p].tok, sess[p].bld, sess[p].items)}
    /\ tokens' = [tokens EXCEPT ![sess[p].tok].used = TRUE]
    /\ IF StatusChanged(sess[p].rstatus)
       THEN /\ status' = "pending_allocation"
            /\ history' = AddHistory(HistoryEntry("pending_allocation", "first_response"))
       ELSE /\ status' = status
            /\ history' = AddHistory(HistoryEntry(sess[p].rstatus, "response"))
    /\ Finish(p, "submit", "ok", "-", "new")
    /\ UNCHANGED <<serial, outbox, now, owner, approved, allocations, pdf_path>>

\* api/responses.py submit_response after the CRUD call returned None.
submit_failed(p) ==
    /\ pc[p] = "submit_failed"
    /\ IF ~FormAvailable(sess[p].tok)
       THEN Finish(p, "submit", "NotFound", "-", "-")
       ELSE Finish(p, "submit", "ValidationError", "-", "-")
    /\ UNCHANGED <<serial, outbox, now, dbvars>>

\* ------------------------------------------------------------------ aggregation
\* The available_quantity of the BuildingResponseItem rows of one response
\* that reference item i, added up.
RECURSIVE QtyOf(_, _)
QtyOf(items, i) ==
    IF items = <<>> THEN 0
    ELSE (IF Head(items).item = i THEN Head(items).qty ELSE 0) + QtyOf(Tail(items), i)

TotalAvailableQuantity_Overwrite(rows, i) ==
    IF rows = {} THEN 0
    ELSE QtyOf((CHOOSE r \in rows : \A x \in rows : x.batch <= r.batch).items, i)

\* crud get_responses: totalAvailableQuantity of item i, accumulated over every
\* BuildingResponse row of the request.
RECURSIVE TotalAvailableQuantity(_, _)
TotalAvailableQuantity(rows, i) ==
    IF rows = {} THEN 0
    ELSE LET r == CHOOSE x \in rows : TRUE
         IN QtyOf(r.items, i) + TotalAvailableQuantity(rows \ {r}, i)

\* api/requests.py get_building_responses: the staff's view of the responses.
get_building_responses(p) ==
    /\ Free(p)
    /\ IF status = "none"
       THEN Finish(p, "responses", "NotFound", "-", "-")
       ELSE Finish(p, "responses", "ok", status,
                   [i \in Items |-> TotalAvailableQuantity(responses, i)])
    /\ UNCHANGED <<serial, outbox, now, dbvars>>

\* ------------------------------------------------------------------ allocation
RECURSIVE SumQty(_)
SumQty(ba) == IF ba = <<>> THEN 0 ELSE Head(ba).qty + SumQty(Tail(ba))

NoBuilding == <<>>
OneBuilding == <<[bld |-> "b1", qty |-> 1]>>
TwoBuildings == <<[bld |-> "b1", qty |-> 1], [bld |-> "b2", qty |-> 1]>>
MissingBuilding == <<[bld |-> "bx", qty |-> 1]>>

ItemAllocation(i, q, ba) == [item |-> i, approved |-> q, ba |-> ba]

\* Request bodies that pass the validation.
ValidAllocationInputs ==
    { <<>>,
      <<ItemAllocation("i1", 0, NoBuilding)>>,
      <<ItemAllocation("i1", 2, TwoBuildings)>>,
      <<ItemAllocation("i1", 1, OneBuilding), ItemAllocation("i2", 2, TwoBuildings)>>,
      <<ItemAllocation("i1", 2, TwoBuildings), ItemAllocation("i2", 0, NoBuilding)>>,
      <<ItemAllocation("i1", 1, OneBuilding), ItemAllocation("i1", 2, TwoBuildings)>>,
      <<ItemAllocation("ix", 1, OneBuilding)>>,
      <<ItemAllocation("i1", 1, MissingBuilding)>>,
      <<ItemAllocation("i1", 1, OneBuilding), ItemAllocation("ix", 1, OneBuilding)>> }

\* Request bodies with an item that breaks the quantity rule.
InvalidAllocationInputs ==
    { <<ItemAllocation("i1", 0, OneBuilding)>>,
      <<ItemAllocation("i1", 1, NoBuilding)>>,
      <<ItemAllocation("i1", 1, TwoBuildings)>>,
      <<ItemAllocation("i1", 2, OneBuilding)>>,
      <<ItemAllocation("i1", 1, OneBuilding), ItemAllocation("i2", 1, TwoBuildings)>>,
      <<ItemAllocation("i1", 0, OneBuilding), ItemAllocation("i2", 0, NoBuilding)>>,
      <<ItemAllocation("i1", 1, OneBuilding), ItemAllocation("i2", 2, NoBuilding)>> }

\* Request bodies of allocate_equipment; fewer of them when handlers overlap.
AllocationInputs ==
    IF serial
    THEN ValidAllocationInputs \cup InvalidAllocationInputs
    ELSE { <<ItemAllocation("i1", 1, OneBuilding)>>, <<ItemAllocation("i1", 0, NoBuilding)>>,
           <<ItemAllocation("i1", 1, NoBuilding)>> }

ValidItemAllocation_AtMost(e) ==
    /\ e.approved >= 0
    /\ \A k \in 1..Len(e.ba) : e.ba[k].qty > 0
    /\ IF e.approved = 0
       THEN e.ba = <<>>
       ELSE e.ba # <<>> /\ SumQty(e.ba) <= e.approved

\* ItemAllocationBase with its field constraints and validate_allocation_consistency.
ValidItemAllocation(e) ==
    /\ e.approved >= 0
    /\ \A k \in 1..Len(e.ba) : e.ba[k].qty > 0
    /\ IF e.approved = 0
       THEN e.ba = <<>>
       ELSE e.ba # <<>> /\ SumQty(e.ba) = e.approved

ValidAllocationCreate(a) == \A k \in 1..Len(a) : ValidItemAllocation(a[k])

\* api/allocations.py allocate_equipment: request-body validation, then the
\* existence and status checks on get_request_detail.
allocate_equipment(p, a) ==
    /\ Free(p)
    /\ IF ~ValidAllocationCreate(a) THEN Finish(p, "allocate", "ValidationError", "-", "-")
       ELSE IF status = "none" THEN Finish(p, "allocate", "NotFound", "-", "-")
       ELSE IF status # "pending_allocation"
            THEN Finish(p, "allocate", "InvalidState", status, "-")
       ELSE Goto(p, "alloc_query", [NoSess EXCEPT !.op = "allocate", !.alloc = a])
    /\ UNCHANGED <<serial, outbox, now, dbvars>>

NamedItems(a) == {a[k].item : k \in 1..Len(a)} \cap Items

\* crud allocate_equipment: the request query with its status filter, the items
\* and, for every named item, the Allocation rows to delete.
alloc_query(p) ==
    /\ pc[p] = "alloc_query"
    /\ IF status # "pending_allocation"
       THEN Finish(p, "allocate", "NotFound", "-", "-")
       ELSE Goto(p, "mark_tokens",
                 [sess[p] EXCEPT !.rstatus = status,
                                 !.dels = {r \in allocations : r.item \in NamedItems(sess[p].alloc)}])
    /\ UNCHANGED <<serial, outbox, now, dbvars>>

\* mark_tokens_as_finished: the tokens of the request are loaded.
mark_tokens_as_finished(p) ==
    /\ pc[p] = "mark_tokens"
    /\ Goto(p, "alloc_commit", [sess[p] EXCEPT !.toks = {t \in TokenIds : tokens[t].exists}])
    /\ UNCHANGED <<serial, outbox, now, dbvars>>

\* The approved quantity an input leaves on item i: the last entry naming it.
RECURSIVE ApprovedAfter(_, _, _)
ApprovedAfter(a, i, old) ==
    IF a = <<>> THEN old
    ELSE ApprovedAfter(Tail(a), i, IF Head(a).item = i THEN Head(a).approved ELSE old)

ApprovedQuantities_FullReplace(a) == [i \in Items |-> ApprovedAfter(a, i, 0)]

\* RequestItem.approved_quantity after the loop over the input.
ApprovedQuantities(a) == [i \in Items |-> ApprovedAfter(a, i, approved[i])]

\* The Allocation rows an input inserts: one per building entry of every entry
\* that names an item of the request with approvedQuantity > 0.
NewAllocations(a) ==
    { [item |-> a[e].item, bld |-> a[e].ba[k].bld, qty |-> a[e].ba[k].qty,
       batch |-> NextId, n |-> <<e, k>>] :
         <<e, k>> \in {x \in (1..Len(a)) \X (1..2) :
                          /\ a[x[1]].item \in Items
                          /\ a[x[1]].approved > 0
                          /\ x[2] <= Len(a[x[1]].ba)} }

FinishedTokens_Skipped(ts) == tokens

\* mark_tokens_as_finished: is_finished is set on every loaded token.
FinishedTokens(ts) == [t \in TokenIds |-> IF t \in ts THEN [tokens[t] EXCEPT !.finished = TRUE]
                                          ELSE tokens[t]]

\* The flush of the commit goes through: every Allocation row to delete is
\* still there, and every row to insert references an existing building
\* (ForeignKey buildings.id).
FlushSucceeds(p) ==
    /\ sess[p].dels \subseteq allocations
    /\ \A r \in NewAllocations(sess[p].alloc) : r.bld \in EnabledBuildings

\* crud allocate_equipment, the commit issued inside mark_tokens_as_finished:
\* approved quantities, deleted and inserted Allocation rows, status, history
\* row and finished tokens in one commit.  When the flush fails,
\* mark_tokens_as_finished rolls back and the handler goes on.
alloc_commit(p) ==
    /\ pc[p] = "alloc_commit"
    /\ Len(history) < MaxHist
    /\ IF FlushSucceeds(p)
       THEN /\ approved' = ApprovedQuantities(sess[p].alloc)
            /\ allocations' = (allocations \ sess[p].dels) \cup NewAllocations(sess[p].alloc)
            /\ status' = "completed"
            /\ history' = AddHistory(HistoryEntry("completed", "allocated"))
            /\ tokens' = FinishedTokens(sess[p].toks)
            /\ Goto(p, "notify", [sess[p] EXCEPT !.committed = TRUE, !.rstatus = "completed"])
       ELSE /\ UNCHANGED <<approved, allocations, status, history, tokens>>
            /\ Goto(p, "notify", [sess[p] EXCEPT !.rstatus = status])
    /\ UNCHANGED <<serial, outbox, now, owner, responses, pdf_path>>

\* The buildings of the notification loop: those named under an entry with
\* approvedQuantity > 0 whose Building row exists.
Recipients(a) ==
    { a[e].ba[k].bld : <<e, k>> \in {x \in (1..Len(a)) \X (1..2) :
                                        /\ a[x[1]].approved > 0
                                        /\ x[2] <= Len(a[x[1]].ba)} } \cap EnabledBuildings

\* The parameters of send_allocation_complete_notification, and the keywords
\* the notification loop calls it with.
DispatchParameters == {"db", "request_id", "building_id"}

DispatchKeywords == {"db", "request_id", "building_name"}

\* The call binds its arguments (no TypeError).
DispatchCallBinds == DispatchKeywords \subseteq DispatchParameters

\* The names crud/allocations.py imports, and the name its except block uses.
ImportedNames == {"crud_response", "Allocation", "Request", "RequestItem", "BuildingResponse",
                  "BuildingResponseItem", "Building", "Equipment", "User", "AllocationCreate",
                  "ItemAllocationBase", "line_bot_service"}

ExceptBlockBound == "logging_service" \in ImportedNames

\* crud allocate_equipment after the commit: the notification loop inside
\* try/except.  An exception of the loop enters the except block; an exception
\* of the except block leaves the handler (api/allocations.py catches only
\* ValueError) and the client gets a server error.
notify_buildings(p) ==
    /\ pc[p] = "notify"
    /\ IF Recipients(sess[p].alloc) = {}
       THEN /\ outbox' = outbox
            /\ Goto(p, "generate_pdf", sess[p])
       ELSE IF DispatchCallBinds
       THEN /\ outbox' = outbox \cup {[kind |-> "allocation_complete", to |-> b] :
                                         b \in Recipients(sess[p].alloc)}
            /\ Goto(p, "generate_pdf", sess[p])
       ELSE IF ExceptBlockBound
       THEN /\ outbox' = outbox
            /\ Goto(p, "generate_pdf", sess[p])
       ELSE /\ outbox' = outbox
            /\ Finish(p, "allocate", "ServerError", sess[p].rstatus, "-")
    /\ UNCHANGED <<serial, now, dbvars>>

\* crud generate_pdf and the handler's response.
generate_pdf(p) ==
    /\ pc[p] = "generate_pdf"
    /\ IF status = "completed"
       THEN /\ pdf_path' = TRUE
            /\ Finish(p, "allocate", "ok", sess[p].rstatus, "pdf")
       ELSE /\ pdf_path' = pdf_path
            /\ Finish(p, "allocate", "ok", sess[p].rstatus, "warning")
    /\ UNCHANGED <<serial, outbox, now, status, owner, history, approved, tokens, responses, allocations>>

Next ==
    \/ Tick
    \/ \E p \in Procs :
        \/ \E u \in Creators : create_with_items(p, u)
        \/ \E u \in Closers : close_request(p, u)
        \/ close_failed(p)
        \/ reject_request(p)
        \/ approve_inquiry(p)
        \/ staff_failed(p)
        \/ update_status(p)
        \/ create_token(p)
        \/ \E t \in TokenIds : get_form(p, t)
        \/ get_form_data(p)
        \/ \E t \in TokenIds, b \in SubmitBuildings, items \in ResponseItemLists :
              submit_response(p, t, b, items)
        \/ submit_token(p)
        \/ submit_checks(p)
        \/ submit_find(p)
        \/ submit_update(p)
        \/ submit_new(p)
        \/ submit_failed(p)
        \/ get_building_responses(p)
        \/ \E a \in AllocationInputs : allocate_equipment(p, a)
        \/ alloc_query(p)
        \/ mark_tokens_as_finished(p)
        \/ alloc_commit(p)
        \/ notify_buildings(p)
        \/ generate_pdf(p)

Spec == Init /\ [][Next]_vars

SpecSeq == InitSeq /\ [][Next]_vars

\* ================================================================== claims
Last(h) == h[Len(h)]

AppendsOne(h, g) == Len(g) = Len(h) + 1 /\ SubSeq(g, 1, Len(h)) = h

\* The handler of p returns in this step.
Returns(p) == pc[p] # "idle" /\ pc'[p] = "idle"

\* C1: every change of the request's status is creation or one of the five edges
\* of the lifecycle graph; rejected, closed and completed are never left.
LifecycleEdges ==
    { <<"none", "pending_review">>,
      <<"pending_review", "pending_building_response">>,
      <<"pending_review", "rejected">>,
      <<"pending_review", "closed">>,
      <<"pending_building_response", "pending_allocation">>,
      <<"pending_allocation", "completed">> }

C1_StatusGraph == [][status' # status => <<status, status'>> \in LifecycleEdges]_vars

C1_Witness == status = "completed" /\ reply.op = "allocate" /\ reply.code = "ok"

\* C2: an allocate call with an item whose quantities are inconsistent
\* (approvedQuantity = 0 with allocations, or approvedQuantity > 0 with none or
\* with a different sum) is answered ValidationError and writes nothing, also
\* when other items of the call are consistent.
Inconsistent(e) ==
    \/ e.approved = 0 /\ e.ba # <<>>
    \/ e.approved > 0 /\ (e.ba = <<>> \/ SumQty(e.ba) # e.approved)

C2_InvalidAllocationRejected ==
    [][\A p \in Procs : \A a \in AllocationInputs :
          (allocate_equipment(p, a) /\ \E k \in 1..Len(a) : Inconsistent(a[k]))
             => (reply'.code = "ValidationError" /\ UNCHANGED dbvars)]_vars

C2_Witness ==
    /\ reply.op = "allocate"
    /\ reply.code = "ValidationError"
    /\ status = "pending_allocation"
    /\ allocations = {}

\* C3: a successful submitResponse on a request in pending_building_response
\* moves it to pending_allocation and appends one history row with that status;
\* on a request already in pending_allocation it leaves the status and appends
\* one history row.
SubmitCommits(p) ==
    /\ pc[p] \in {"submit_new", "submit_update"}
    /\ Returns(p)
    /\ reply'.op = "submit"
    /\ reply'.code = "ok"

C3_FirstResponseTransition ==
    [][\A p \in Procs : SubmitCommits(p) =>
          /\ AppendsOne(history, history')
          /\ status = "pending_building_response" =>
                (status' = "pending_allocation" /\ Last(history').status = "pending_allocation")
          /\ status = "pending_allocation" =>
                (status' = "pending_allocation" /\ Last(history').note # "first_response")]_vars

C3_Witness ==
    /\ reply.op = "submit" /\ reply.code = "ok" /\ reply.info = "new"
    /\ status = "pending_allocation"
    /\ Cardinality({r.bld : r \in responses}) = 2
    /\ Cardinality({k \in 1..Len(history) : history[k].note = "first_response"}) = 1
    /\ Last(history).note = "response"

\* C4: after a successful submitResponse for a (token, building) pair exactly one
\* BuildingResponse row exists for the pair, holding exactly the items of that
\* call; rows of a pair change at no other step.
RowsOf(rs, t, b) == {r \in rs : r.tok = t /\ r.bld = b}

C4_ResubmitReplaces ==
    [][/\ \A p \in Procs : SubmitCommits(p) =>
             /\ Cardinality(RowsOf(responses', sess[p].tok, sess[p].bld)) = 1
             /\ \A r \in RowsOf(responses', sess[p].tok, sess[p].bld) : r.items = sess[p].items
             /\ \A t \in TokenIds, b \in BuildingIds :
                   <<t, b>> # <<sess[p].tok, sess[p].bld>>
                      => RowsOf(responses', t, b) = RowsOf(responses, t, b)
       /\ responses' # responses => \E p \in Procs : SubmitCommits(p)]_vars

C4_Witness ==
    /\ reply.op = "submit" /\ reply.code = "ok" /\ reply.info = "update"
    /\ \E r \in responses : r.batch # r.id /\ Len(r.items) = 2

\* C5: get_form_data and submit_response refuse a token that is finished though
\* not expired, and a token that is expired though not finished, and change no
\* row.
Dead(t) == tokens[t].exists /\ (tokens[t].finished \/ tokens[t].expires < now)

SubmitLabels == {"submit_token", "submit_checks", "submit_find", "submit_update",
                 "submit_new", "submit_failed"}

C8_SingleTransitionRecord ==
    [][\A p \in Procs :
          (/\ SubmitCommits(p)
           /\ status = "pending_allocation"
           /\ responses # {}
           /\ \A r \in responses : r.bld # sess[p].bld)
             => Last(history').note # "first_response"]_vars

\* C9: of close, reject and approve-inquiry at most one succeeds: update_status
\* commits only on a request that is still pending_review.
C9_SingleDecision ==
    [][\A p \in Procs : (pc[p] = "update_status" /\ pc'[p] # pc[p])
          => status = "pending_review"]_vars

\* C10: every status change appends, in the same step, exactly one history row
\* carrying the new status, and the status always equals the status of the
\* newest history row.
C10_HistoryFollowsStatus ==
    /\ [](status # "none" => (history # <<>> /\ Last(history).status = status))
    /\ [][status' # status =>
             (AppendsOne(history, history') /\ Last(history').status = status')]_vars

C10_Witness ==
    /\ status = "completed"
    /\ Len(history) = MaxHist
    /\ Last(history).status = "completed"

\* C11: when the notification dispatch after the allocate commit raises, the
\* handler still goes on to its success response with status completed and no
\* committed row is changed.
DispatchFails(p) ==
    /\ pc[p] = "notify"
    /\ pc'[p] # "notify"
    /\ Recipients(sess[p].alloc) # {}
    /\ ~DispatchCallBinds

C11_NotificationFailureTolerated ==
    [][\A p \in Procs : DispatchFails(p) =>
          /\ pc'[p] = "generate_pdf"
          /\ reply'.code # "ServerError"
          /\ sess'[p].rstatus = "completed"
          /\ UNCHANGED dbvars]_vars

\* C12: when generate_pdf yields no path after the allocate commit, the handler
\* answers success with a warning, and the request stays completed with its
\* Allocation rows.
DocumentFails(p) ==
    /\ pc[p] = "generate_pdf"
    /\ Returns(p)
    /\ sess[p].committed
    /\ ~pdf_path'

C12_DocumentFailureTolerated ==
    [][\A p \in Procs : DocumentFails(p) =>
          /\ reply'.op = "allocate" /\ reply'.code = "ok" /\ reply'.info = "warning"
          /\ status' = "completed"
          /\ allocations' = allocations]_vars

\* C13: get_form and submit answer InvalidToken for a token that does not
\* exist, Expired for one past its expiry and Completed for a finished one.
TokenVerdict(t) ==
    IF ~tokens[t].exists THEN "InvalidToken"
    ELSE IF tokens[t].expires < now THEN "Expired"
    ELSE IF tokens[t].finished THEN "Completed"
    ELSE "-"

C13_TokenFailuresDistinguished ==
    [][\A p \in Procs : \A t \in TokenIds : TokenVerdict(t) # "-" =>
          /\ (get_form(p, t) /\ Returns(p)) => reply'.code = TokenVerdict(t)
          /\ (pc[p] = "get_form_data" /\ sess[p].tok = t /\ Returns(p))
                => reply'.code = TokenVerdict(t)
          /\ (\E b \in BuildingIds, items \in ResponseItemLists : submit_response(p, t, b, items))
                => reply'.code = TokenVerdict(t)]_vars

\* C14: reject, approve-inquiry and allocate on an existing request in another
\* status than the required one are answered InvalidState with the current
\* status and change no row.
WrongFor(op) ==
    /\ status # "none"
    /\ status # (IF op = "allocate" THEN "pending_allocation" ELSE "pending_review")

BadReference(p) == sess[p].bld \notin EnabledBuildings \/ ~ItemsBelong(sess[p].items)

C15_BadReferenceNotFound ==
    [][\A p \in Procs :
          (/\ pc[p] = "submit_failed"
           /\ Returns(p)
           /\ FormAvailable(sess[p].tok)
           /\ BadReference(p))
             => (reply'.code = "NotFound" /\ UNCHANGED dbvars)]_vars

\* C16: an allocate whose input names an item that is not an item of the request
\* is answered NotFound and commits nothing.
NamesUnknownItem(a) == \E k \in 1..Len(a) : a[k].item \notin Items

C16_UnknownItemNotFound ==
    [][\A p \in Procs : (sess[p].op = "allocate" /\ NamesUnknownItem(sess[p].alloc)) =>
          /\ UNCHANGED <<status, approved, allocations, tokens>>
          /\ Returns(p) => reply'.code = "NotFound"]_vars

\* C17: the allocate commit leaves the approved quantity and the Allocation rows
\* of every item its input does not name as they were, and no other step
\* writes them.
AllocationsOf(rows, i) == {r \in rows : r.item = i}

C17_UnnamedItemsUntouched ==
    [][/\ \A p \in Procs : (pc[p] = "alloc_commit" /\ pc'[p] # pc[p]) =>
             \A i \in Items :
                (\A k \in 1..Len(sess[p].alloc) : sess[p].alloc[k].item # i)
                   => /\ approved'[i] = approved[i]
                      /\ AllocationsOf(allocations', i) = AllocationsOf(allocations, i)
       /\ (approved' # approved \/ allocations' # allocations)
             => \E p \in Procs : pc[p] = "alloc_commit"]_vars

C17_Witness ==
    /\ status = "completed"
    /\ approved["i1"] = 2
    /\ approved["i2"] = NULL
    /\ Cardinality(AllocationsOf(allocations, "i1")) = 2
    /\ AllocationsOf(allocations, "i2") = {}

\* C18: no committed state has the request in pending_building_response
\* without a token.
C18_ApprovedHasToken ==
    status = "pending_building_response" => \E t \in TokenIds : tokens[t].exists

\* C19: when approve-inquiry returns success, a building-request notification
\* has been dispatched.
C19_ApproveNotifies ==
    [][\A p \in Procs : (sess[p].op = "approve" /\ Returns(p) /\ reply'.code = "ok")
          => \E m \in outbox' : m.kind = "building_request"]_vars

\* C20: a token is used exactly when a BuildingResponse row references it, and
\* used is never reset.
C20_UsedIffResponded ==
    /\ [](\A t \in TokenIds : tokens[t].exists =>
             (tokens[t].used <=> \E r \in responses : r.tok = t))
    /\ [][\A t \in TokenIds : tokens[t].used => tokens'[t].used]_vars

C20_Witness ==
    /\ reply.op = "submit" /\ reply.code = "ok" /\ reply.info = "new"
    /\ \E t \in TokenIds : tokens[t].used /\ Cardinality({r \in responses : r.tok = t}) = 1

\* C21: the total availability staff are shown for an item is the sum, over the
\* buildings that have responded, of what each declared for the item in its
\* latest submission.
RespondedBuildings == {r.bld : r \in responses}

LatestResponse(b) ==
    CHOOSE r \in responses : r.bld = b /\ \A x \in responses : x.bld = b => x.batch <= r.batch

RECURSIVE SumDeclared(_, _)
SumDeclared(bs, i) ==
    IF bs = {} THEN 0
    ELSE LET b == CHOOSE x \in bs : TRUE
         IN QtyOf(LatestResponse(b).items, i) + SumDeclared(bs \ {b}, i)

C21_TotalsAccumulate ==
    [][\A p \in Procs : (get_building_responses(p) /\ reply'.code = "ok") =>
          \A i \in Items : reply'.info[i] = SumDeclared(RespondedBuildings, i)]_vars

C21_Witness ==
    /\ reply.op = "responses" /\ reply.code = "ok"
    /\ reply.info["i1"] = 4
    /\ Cardinality(RespondedBuildings) = 2
    /\ \E r \in responses : r.batch # r.id

\* C22: once the request is completed no step changes its BuildingResponse rows
\* or their items, also not a submit that started before the allocate commit.
C22_CompletedResponsesFrozen ==
    [][status = "completed" => responses' = responses]_vars

\* C23: allocate commits at most once per request: the history holds at most one
\* row written by an allocate commit.
AllocateCommits == {k \in 1..Len(history) : history[k].note = "allocated"}

C23_AllocateOnce == Cardinality(AllocateCommits) <= 1

\* C24: the history is append-only: every step keeps the existing rows, in
\* order, as a prefix of the new history.
C24_HistoryAppendOnly ==
    [][/\ Len(history') >= Len(history)
       /\ SubSeq(history', 1, Len(history)) = history]_vars

C24_Witness ==
    /\ Len(history) = MaxHist
    /\ history[1].note = "created"
    /\ Last(history).note = "response_update"

\* C25: a submit for one building leaves the response rows of every other
\* building, and their items, as they were.
C25_OtherBuildingsUntouched ==
    [][\A p \in Procs : (sess[p].op = "submit" /\ pc'[p] # pc[p]) =>
          \A b \in EnabledBuildings : b # sess[p].bld =>
             {r \in responses' : r.bld = b} = {r \in responses : r.bld = b}]_vars

C25_Witness ==
    /\ reply.op = "submit" /\ reply.code = "ok" /\ reply.info = "update"
    /\ \E r \in responses : r.bld = "b1" /\ r.batch # r.id
    /\ \E r \in responses : r.bld = "b2" /\ r.batch = r.id

\* C26: an allocate commit leaves, for every item its input names, the supplied
\* approved quantity and Allocation rows that add up to exactly that quantity.
RECURSIVE SumRows(_)
SumRows(rows) ==
    IF rows = {} THEN 0
    ELSE LET r == CHOOSE x \in rows : TRUE IN r.qty + SumRows(rows \ {r})

C26_AllocationsMatchApproved ==
    [][\A p \in Procs : (pc[p] = "alloc_commit" /\ sess'[p].committed) =>
          \A i \in Items : (\E k \in 1..Len(sess[p].alloc) : sess[p].alloc[k].item = i) =>
             /\ \E k \in 1..Len(sess[p].alloc) :
                   sess[p].alloc[k].item = i /\ approved'[i] = sess[p].alloc[k].approved
             /\ SumRows(AllocationsOf(allocations', i)) = approved'[i]]_vars

\* C28: when allocate answers success, the committed status is completed and
\* the handler's commit went through.
C28_SuccessMeansCommitted ==
    [][\A p \in Procs : (sess[p].op = "allocate" /\ Returns(p) /\ reply'.code = "ok") =>
          (sess[p].committed /\ status' = "completed")]_vars

\* C27: a (token, building) pair never has more than one BuildingResponse row,
\* also after two submits for the pair that ran at the same time.
C27_OneRowPerPair ==
    \A t \in TokenIds, b \in EnabledBuildings : Cardinality(RowsOf(responses, t, b)) <= 1

\* C29: in a completed request every item has an approved quantity.
C29_CompletedItemsDecided ==
    status = "completed" => \A i \in Items : approved[i] # NULL

\* C30: every Allocation row names a building that has responded, and allocates
\* no more than that building declared for the item.
C30_AllocationsWithinDeclared ==
    \A a \in allocations :
       \E r \in responses : r.bld = a.bld /\ a.qty <= QtyOf(r.items, a.item)
====
